---- MODULE Spec2Model ----
(* Model of safety_check.py: one run of the PNS / acoustic-resonance safety  *)
(* gate, either started from the command line (the __main__ block) or by a   *)
(* direct call of safety_check(seq_file, scanner).                            *)
(*                                                                            *)
(* Python strings that the code slices, strips or searches are tuples of      *)
(* one-character strings, so the string functions are computed character by   *)
(* character.  Printed messages are tags in the sequence stdout.              *)
(*                                                                            *)
(* Environment: the gradient calibration file is present or absent for the    *)
(* whole run; every open of the sequence file may succeed or fail on its own. *)
(* pypulseq and matplotlib calls other than Sequence.read return normally;    *)
(* calculate_pns returns either verdict.                                      *)
EXTENDS Integers, Sequences, FiniteSets, TLC

VARIABLES pc, entry, argv, seq_file, scanner, seq, gradient_file, lines,
          pns_ok, hashes, spectrum, plots, stdout, steps, exc, exit_status,
          DEFAULT_ACOUSTIC_RESONANCES_3T, DEFAULT_ACOUSTIC_RESONANCES_7T

vars == <<pc, entry, argv, seq_file, scanner, seq, gradient_file, lines,
          pns_ok, hashes, spectrum, plots, stdout, steps, exc, exit_status,
          DEFAULT_ACOUSTIC_RESONANCES_3T, DEFAULT_ACOUSTIC_RESONANCES_7T>>

-----------------------------------------------------------------------------
(* Bounds *)

\* largest len(sys.argv) tried, script name included
MaxArgs == 4
\* largest number of lines in the sequence file
MaxLines == 2

-----------------------------------------------------------------------------
(* String literals of the program *)

S3T == <<"3", "T">>
S7T == <<"7", "T">>
HashPrefix == <<"H", "a", "s", "h", " ">>
HashNotFound == <<"H","a","s","h"," ","n","o","t"," ","f","o","u","n","d">>
HashExtractionFailed ==
  <<"H","a","s","h"," ","e","x","t","r","a","c","t","i","o","n"," ",
    "f","a","i","l","e","d">>
DotSeq == <<".", "s", "e", "q">>
DotPng == <<".", "p", "n", "g">>
PnsPrefix == <<"p","n","s","_","c","h","e","c","k","_">>
AcousticPrefix ==
  <<"a","c","o","u","s","t","i","c","_","r","e","s","o","n","a","n","c","e","s","_">>
Whitespace == {" ", "\n", "\t"}

InitialTable3T == << [frequency |-> 590,  bandwidth |-> 100],
                     [frequency |-> 1140, bandwidth |-> 220] >>
InitialTable7T == << [frequency |-> 550,  bandwidth |-> 100],
                     [frequency |-> 1100, bandwidth |-> 300] >>

-----------------------------------------------------------------------------
(* Inputs *)

Script == <<"s","c",".","p","y">>
\* a third scanner string that is neither '3T' nor '7T'
SOther == <<"1", "5", "T">>
ScannerArgs == {S3T, S7T, SOther}

SamplePaths == { <<"a">> \o DotSeq,
                 <<"d", "/", "a">> \o DotSeq,
                 <<"a">> \o DotSeq \o DotSeq }

\* candidate lines of the sequence file, as readlines() returns them
SampleLines == { <<"H","a","s","h"," ","a","b","\n">>,
                 <<" "," ","H","a","s","h"," ","c"," ","\n">>,
                 <<"H","a","s","h"," ","\n">>,
                 <<"x","H","a","s","h"," ","a","\n">>,
                 <<"H","a","s","h"," "," ","d","\n">>,
                 <<"\n">> }

SeqsUpTo(S, n) == UNION { [1..k -> S] : k \in 0..n }

Files == SeqsUpTo(SampleLines, MaxLines)

\* sys.argv: the script name, then up to MaxArgs - 1 arguments
ArgLists == {<<Script>>} \cup
            { <<Script, p>> \o r : p \in SamplePaths,
                                   r \in SeqsUpTo(ScannerArgs, MaxArgs - 2) }

\* the calibration file: absent, or the two arrays readasc() returns
GradientFiles ==
  { [exists |-> FALSE, frequencies |-> <<>>, bandwidths |-> <<>>],
    [exists |-> TRUE, frequencies |-> <<590, 1140, 0>>,
                      bandwidths  |-> <<100, 220, 0>>],
    [exists |-> TRUE, frequencies |-> <<0, 0>>, bandwidths |-> <<0, 0>>] }

-----------------------------------------------------------------------------
(* String functions *)

StartsWith(s, p) == Len(s) >= Len(p) /\ SubSeq(s, 1, Len(p)) = p

RECURSIVE LStrip(_)
LStrip(s) == IF s # <<>> /\ Head(s) \in Whitespace THEN LStrip(Tail(s)) ELSE s

RECURSIVE RStrip(_)
RStrip(s) == IF s # <<>> /\ s[Len(s)] \in Whitespace
             THEN RStrip(SubSeq(s, 1, Len(s) - 1)) ELSE s

Strip(s) == RStrip(LStrip(s))

\* str.replace(old, ''): non-overlapping occurrences, left to right
RECURSIVE RemoveAll(_, _)
RemoveAll(s, old) ==
  IF Len(s) < Len(old) THEN s
  ELSE IF StartsWith(s, old)
       THEN RemoveAll(SubSeq(s, Len(old) + 1, Len(s)), old)
       ELSE <<Head(s)>> \o RemoveAll(Tail(s), old)

\* os.path.basename: what follows the last "/"
RECURSIVE Basename(_)
Basename(p) == IF \E i \in 1..Len(p) : p[i] = "/"
               THEN Basename(Tail(p)) ELSE p

output_filename(prefix, path) ==
  prefix \o RemoveAll(Basename(path), DotSeq) \o DotPng

-----------------------------------------------------------------------------
(* extract_md5_hash *)

\* a mutation: the first matching line instead of the last
RECURSIVE ScanForward(_, _)
ScanForward(ls, i) ==
  IF i = 0 THEN HashNotFound
  ELSE LET k == Len(ls) - i + 1
           line == Strip(ls[k])
       IN IF StartsWith(line, HashPrefix)
          THEN SubSeq(line, 6, Len(line))
          ELSE ScanForward(ls, i - 1)

\* for line in reversed(lines): i runs from Len(ls) down to 1
RECURSIVE ScanReversed(_, _)
ScanReversed(ls, i) ==
  IF i = 0 THEN HashNotFound
  ELSE LET line == Strip(ls[i])
       IN IF StartsWith(line, HashPrefix)
          THEN SubSeq(line, 6, Len(line))
          ELSE ScanReversed(ls, i - 1)

extract_md5_hash(ls, readable) ==
  IF readable THEN ScanReversed(ls, Len(ls)) ELSE HashExtractionFailed

\* what extract_md5_hash prints
HashMessages(readable) == IF readable THEN <<>> ELSE <<"hash_read_error">>

-----------------------------------------------------------------------------
(* Decisions of the code *)

\* a mutation: three arguments taken for bad usage
BadUsageOnlyOne(a) == Len(a) # 2

BadUsage(a) == Len(a) # 2 /\ Len(a) # 3

\* the scanner safety_check receives from the __main__ block
ScannerFromMain(a) == S3T

\* a mutation: the PNS check runs without the calibration file
PnsNeverSkipped(g) == FALSE

PnsSkipped(g) == ~g.exists

\* a mutation: the failed verdict is only printed
PnsVerdictNeverRaises(ok) == FALSE

PnsVerdictRaises(ok) == ~ok

\* a mutation: the acoustic check follows whatever check_PNS did
AfterPNSAlways(raised) == "acoustic"

AfterPNS(raised) == IF raised THEN "exit" ELSE "acoustic"

\* a mutation: every scanner gets the 3T table
SelectDefault3TOnly(s, t3, t7) ==
  IF s = S3T \/ s = S7T THEN [ok |-> TRUE, res |-> t3]
  ELSE [ok |-> FALSE, res |-> <<>>]

\* a mutation: an unknown scanner falls back to the 3T table
SelectDefaultNoRaise(s, t3, t7) ==
  IF s = S7T THEN [ok |-> TRUE, res |-> t7] ELSE [ok |-> TRUE, res |-> t3]

SelectDefault(s, t3, t7) ==
  IF s = S3T THEN [ok |-> TRUE, res |-> t3]
  ELSE IF s = S7T THEN [ok |-> TRUE, res |-> t7]
  ELSE [ok |-> FALSE, res |-> <<>>]

Min(a, b) == IF a < b THEN a ELSE b

\* zip(frequencies, bandwidths) filtered on freq != 0
RECURSIVE ZipNonZero(_, _, _)
ZipNonZero(f, b, i) ==
  IF i > Min(Len(f), Len(b)) THEN <<>>
  ELSE (IF f[i] # 0 THEN <<[frequency |-> f[i], bandwidth |-> b[i]]>> ELSE <<>>)
       \o ZipNonZero(f, b, i + 1)

ResonancesFromFile(g) == ZipNonZero(g.frequencies, g.bandwidths, 1)

\* a mutation: the figure is never written
SavePlotDropped(ps, kind, file, hash) == ps

SavePlot(ps, kind, file, hash) ==
  ps \cup {[kind |-> kind, file |-> file, hash |-> hash]}

-----------------------------------------------------------------------------
(* State machine *)

Init ==
  /\ pc = "idle"
  /\ entry = "none"
  /\ argv = <<>>
  /\ seq_file = <<>>
  /\ scanner = <<>>
  /\ seq = "none"
  /\ gradient_file \in GradientFiles
  /\ lines \in Files
  /\ pns_ok = "none"
  /\ hashes = <<>>
  /\ spectrum = <<>>
  /\ plots = {}
  /\ stdout = <<>>
  /\ steps = <<>>
  /\ exc = "none"
  /\ exit_status = "running"
  /\ DEFAULT_ACOUSTIC_RESONANCES_3T = InitialTable3T
  /\ DEFAULT_ACOUSTIC_RESONANCES_7T = InitialTable7T

\* the __main__ block
Main ==
  /\ pc = "idle"
  /\ \E a \in ArgLists :
       /\ argv' = a
       /\ IF BadUsage(a)
          THEN /\ stdout' = Append(stdout, "usage")
               /\ exc' = "SystemExit"
               /\ pc' = "exit"
               /\ UNCHANGED <<seq_file, scanner>>
          ELSE /\ seq_file' = a[2]
               /\ scanner' = ScannerFromMain(a)
               /\ pc' = "construct"
               /\ UNCHANGED <<stdout, exc>>
  /\ entry' = "cli"
  /\ steps' = Append(steps, "parse")
  /\ UNCHANGED <<seq, gradient_file, lines, pns_ok, hashes, spectrum, plots,
                 exit_status, DEFAULT_ACOUSTIC_RESONANCES_3T,
                 DEFAULT_ACOUSTIC_RESONANCES_7T>>

\* safety_check(seq_file, scanner) called by an importing program
Call ==
  /\ pc = "idle"
  /\ \E p \in SamplePaths, s \in ScannerArgs :
       /\ seq_file' = p
       /\ scanner' = s
  /\ entry' = "api"
  /\ pc' = "construct"
  /\ UNCHANGED <<argv, seq, gradient_file, lines, pns_ok, hashes, spectrum,
                 plots, stdout, steps, exc, exit_status,
                 DEFAULT_ACOUSTIC_RESONANCES_3T, DEFAULT_ACOUSTIC_RESONANCES_7T>>

\* seq = pp.Sequence()
Construct ==
  /\ pc = "construct"
  /\ seq' = "empty"
  /\ pc' = "load"
  /\ steps' = Append(steps, "construct")
  /\ UNCHANGED <<entry, argv, seq_file, scanner, gradient_file, lines, pns_ok,
                 hashes, spectrum, plots, stdout, exc, exit_status,
                 DEFAULT_ACOUSTIC_RESONANCES_3T, DEFAULT_ACOUSTIC_RESONANCES_7T>>

\* seq.read(seq_file)
Load ==
  /\ pc = "load"
  /\ \E readable \in BOOLEAN :
       IF readable
       THEN /\ seq' = "loaded"
            /\ pc' = "pns"
            /\ exc' = exc
       ELSE /\ seq' = seq
            /\ pc' = "exit"
            /\ exc' = "ReadError"
  /\ steps' = Append(steps, "load")
  /\ UNCHANGED <<entry, argv, seq_file, scanner, gradient_file, lines, pns_ok,
                 hashes, spectrum, plots, stdout, exit_status,
                 DEFAULT_ACOUSTIC_RESONANCES_3T, DEFAULT_ACOUSTIC_RESONANCES_7T>>

\* check_PNS(seq, gradFile, seq_file)
CheckPNS ==
  /\ pc = "pns"
  /\ steps' = Append(steps, "pns")
  /\ IF PnsSkipped(gradient_file)
     THEN /\ stdout' = Append(stdout, "pns_skipped_warning")
          /\ pc' = "acoustic"
          /\ UNCHANGED <<pns_ok, hashes, plots, exc>>
     ELSE \E readable \in BOOLEAN, ok \in BOOLEAN :
            LET md5_hash == extract_md5_hash(lines, readable)
                raised == PnsVerdictRaises(ok)
            IN /\ hashes' = Append(hashes, [by |-> "pns", readable |-> readable,
                                            result |-> md5_hash])
               /\ pns_ok' = IF ok THEN "true" ELSE "false"
               /\ plots' = SavePlot(plots, "pns",
                                    output_filename(PnsPrefix, seq_file), md5_hash)
               /\ stdout' = stdout \o <<"gradient_file_found">>
                                   \o HashMessages(readable)
                                   \o <<"pns_plot_saved">>
                                   \o <<IF ok THEN "pns_passed" ELSE "pns_failed">>
               /\ exc' = IF raised THEN "RuntimeError" ELSE exc
               /\ pc' = AfterPNS(raised)
  /\ UNCHANGED <<entry, argv, seq_file, scanner, seq, gradient_file, lines,
                 spectrum, exit_status, DEFAULT_ACOUSTIC_RESONANCES_3T,
                 DEFAULT_ACOUSTIC_RESONANCES_7T>>

\* check_acoustic_resonances(seq, gradFile, seq_file, scanner)
CheckAcoustic ==
  /\ pc = "acoustic"
  /\ steps' = Append(steps, "acoustic")
  /\ LET sel == IF gradient_file.exists
                THEN [ok |-> TRUE, res |-> ResonancesFromFile(gradient_file)]
                ELSE SelectDefault(scanner, DEFAULT_ACOUSTIC_RESONANCES_3T,
                                   DEFAULT_ACOUSTIC_RESONANCES_7T)
         msg == IF gradient_file.exists THEN "resonances_from_file"
                ELSE "default_resonances_warning"
     IN IF ~sel.ok
        THEN /\ exc' = "ValueError"
             /\ pc' = "exit"
             /\ UNCHANGED <<hashes, spectrum, plots, stdout>>
        ELSE \E readable \in BOOLEAN :
               LET md5_hash == extract_md5_hash(lines, readable)
               IN /\ hashes' = Append(hashes, [by |-> "acoustic",
                                               readable |-> readable,
                                               result |-> md5_hash])
                  /\ spectrum' = Append(spectrum, sel.res)
                  /\ plots' = SavePlot(plots, "acoustic",
                                       output_filename(AcousticPrefix, seq_file),
                                       md5_hash)
                  /\ stdout' = stdout \o <<msg>> \o HashMessages(readable)
                                      \o <<"acoustic_plot_saved">>
                  /\ pc' = "exit"
                  /\ exc' = exc
  /\ UNCHANGED <<entry, argv, seq_file, scanner, seq, gradient_file, lines,
                 pns_ok, exit_status, DEFAULT_ACOUSTIC_RESONANCES_3T,
                 DEFAULT_ACOUSTIC_RESONANCES_7T>>

\* the interpreter ends the process: status 0 on a normal return, 1 on
\* sys.exit(1) or an uncaught exception
Exit ==
  /\ pc = "exit"
  /\ pc' = "done"
  /\ exit_status' = IF exc = "none" THEN "0" ELSE "1"
  /\ steps' = Append(steps, "exit")
  /\ UNCHANGED <<entry, argv, seq_file, scanner, seq, gradient_file, lines,
                 pns_ok, hashes, spectrum, plots, stdout, exc,
                 DEFAULT_ACOUSTIC_RESONANCES_3T, DEFAULT_ACOUSTIC_RESONANCES_7T>>

Next == Main \/ Call \/ Construct \/ Load \/ CheckPNS \/ CheckAcoustic \/ Exit

Spec == Init /\ [][Next]_vars

-----------------------------------------------------------------------------
(* Properties *)

Ran(step) == \E i \in 1..Len(steps) : steps[i] = step
Printed(msg) == \E i \in 1..Len(stdout) : stdout[i] = msg
PlotsOf(kind) == {pl \in plots : pl.kind = kind}
HashCallsBy(kind) == {i \in 1..Len(hashes) : hashes[i].by = kind}
EndsWith(s, suf) ==
  Len(s) >= Len(suf) /\ SubSeq(s, Len(s) - Len(suf) + 1, Len(s)) = suf

\* C1: whenever calculate_pns reports the limit exceeded, the run ends with
\* RuntimeError "PNS check failed!" and process status 1; it never completes
\* normally.
C1_PnsFailureIsFatal ==
  pns_ok = "false" =>
    /\ exc = "RuntimeError"
    /\ pc \in {"exit", "done"}
    /\ exit_status # "0"
    /\ pc = "done" => exit_status = "1"

C1_Witness == pns_ok = "false" /\ pc = "done" /\ exit_status = "1"

\* C2: on the command line the scanner that reaches check_acoustic_resonances
\* is the second argument when it is 3T or 7T and 3T when it is omitted; with
\* 7T and no calibration file the 7T default table is used.
C2_ScannerArgumentSelects ==
  (entry = "cli" /\ Ran("acoustic")) =>
    /\ Len(argv) = 2 => scanner = S3T
    /\ (Len(argv) = 3 /\ argv[3] \in {S3T, S7T}) => scanner = argv[3]
    /\ (Len(argv) = 3 /\ argv[3] = S7T /\ ~gradient_file.exists)
         => spectrum = <<InitialTable7T>>

\* C3 as stated: every run that completes normally has written both plots,
\* whether or not the calibration file is present.
C3_BothPlotsAlways ==
  (pc = "done" /\ exit_status = "0") =>
    PlotsOf("pns") # {} /\ PlotsOf("acoustic") # {}

\* C3 amended: every run that completes normally has written the acoustic
\* plot; it has written the PNS plot exactly when the calibration file is
\* present.
C3_PlotsOnNormalCompletion ==
  (pc = "done" /\ exit_status = "0") =>
    /\ Cardinality(PlotsOf("acoustic")) = 1
    /\ gradient_file.exists => Cardinality(PlotsOf("pns")) = 1
    /\ ~gradient_file.exists => PlotsOf("pns") = {}

C3_Witness ==
  /\ pc = "done" /\ exit_status = "0" /\ gradient_file.exists
  /\ PlotsOf("pns") # {} /\ PlotsOf("acoustic") # {}

\* the tables as the claim writes them
ClaimedTable(s) ==
  IF s = S3T
  THEN << [frequency |-> 590, bandwidth |-> 100],
          [frequency |-> 1140, bandwidth |-> 220] >>
  ELSE << [frequency |-> 550, bandwidth |-> 100],
          [frequency |-> 1100, bandwidth |-> 300] >>

\* C4: with the calibration file absent and scanner 3T or 7T,
\* check_acoustic_resonances raises nothing, passes exactly that scanner's
\* default table to calculate_gradient_spectrum, prints the warning and saves
\* the acoustic plot; the default tables are never modified.
C4_DefaultTableFallback ==
  /\ DEFAULT_ACOUSTIC_RESONANCES_3T = ClaimedTable(S3T)
  /\ DEFAULT_ACOUSTIC_RESONANCES_7T = ClaimedTable(S7T)
  /\ (~gradient_file.exists /\ Ran("acoustic") /\ scanner \in {S3T, S7T}) =>
       /\ exc = "none"
       /\ spectrum = <<ClaimedTable(scanner)>>
       /\ Printed("default_resonances_warning")
       /\ ~Printed("resonances_from_file")
       /\ Cardinality(PlotsOf("acoustic")) = 1

C4_Witness ==
  /\ ~gradient_file.exists /\ Ran("acoustic") /\ scanner = S7T
  /\ spectrum = <<ClaimedTable(S7T)>> /\ PlotsOf("acoustic") # {}

\* C5 as stated: for every scanner other than 3T and 7T the acoustic check
\* ends with ValueError and neither computes the spectrum nor writes the
\* plot, whether or not the calibration file is present.
C5_UnknownScannerAlwaysFatal ==
  (Ran("acoustic") /\ scanner \notin {S3T, S7T}) =>
    exc = "ValueError" /\ spectrum = <<>> /\ PlotsOf("acoustic") = {}

\* C5 amended: for every scanner other than 3T and 7T, when the calibration
\* file is absent the acoustic check ends with ValueError and neither computes
\* the spectrum nor writes the plot; when the file is present the scanner is
\* not examined: the spectrum is computed from the file's resonances and the
\* plot is written.
C5_UnknownScannerFatalWithoutFile ==
  (Ran("acoustic") /\ scanner \notin {S3T, S7T}) =>
    IF gradient_file.exists
    THEN /\ exc = "none"
         /\ spectrum = <<ResonancesFromFile(gradient_file)>>
         /\ PlotsOf("acoustic") # {}
    ELSE /\ exc = "ValueError"
         /\ pc \in {"exit", "done"}
         /\ exit_status # "0"
         /\ spectrum = <<>>
         /\ PlotsOf("acoustic") = {}

C5_Witness ==
  /\ Ran("acoustic") /\ scanner = SOther /\ ~gradient_file.exists
  /\ exc = "ValueError" /\ pc = "done"

Canon == <<"parse", "construct", "load", "pns", "acoustic", "exit">>
Pos(step) == CHOOSE i \in 1..Len(Canon) : Canon[i] = step

\* C6: the steps of a run occur in the order parse, construct, load, PNS
\* check, acoustic check, exit, each at most once and none skipped before the
\* exit; the acoustic check starts only after the PNS check returned without
\* error; after a failed PNS check it never runs and no acoustic plot exists.
C6_LinearProcedure ==
  /\ \A i \in 1..Len(steps) : \E k \in 1..Len(Canon) : steps[i] = Canon[k]
  /\ \A i, j \in 1..Len(steps) : i < j => Pos(steps[i]) < Pos(steps[j])
  /\ \A i \in 1..Len(steps) :
       steps[i] # "exit" =>
         steps[i] = Canon[IF entry = "cli" THEN i ELSE i + 1]
  /\ Ran("acoustic") => (Ran("pns") /\ pns_ok # "false" /\ exc # "RuntimeError")
  /\ pns_ok = "false" => (~Ran("acoustic") /\ PlotsOf("acoustic") = {}
                          /\ spectrum = <<>> /\ pc # "acoustic")
  /\ pc = "done" <=> Ran("exit")

C6_Witness ==
  /\ entry = "cli" /\ steps = Canon /\ pc = "done" /\ pns_ok = "true"

Qualifying(ls) == {i \in 1..Len(ls) : StartsWith(Strip(ls[i]), HashPrefix)}
LastOf(S) == CHOOSE i \in S : \A j \in S : j <= i

\* what the claim says extract_md5_hash returns
ClaimedHash(ls, readable) ==
  IF ~readable THEN HashExtractionFailed
  ELSE IF Qualifying(ls) = {} THEN HashNotFound
  ELSE LET line == Strip(ls[LastOf(Qualifying(ls))])
       IN SubSeq(line, Len(HashPrefix) + 1, Len(line))

\* C7: every call of extract_md5_hash returns the text after "Hash " of the
\* last line that, stripped, starts with "Hash "; "Hash not found" when the
\* file is readable and no line qualifies; "Hash extraction failed" when the
\* file cannot be opened or read.  No call raises: the calling check goes on
\* and saves its plot under the returned text.
C7_HashExtraction ==
  \A i \in 1..Len(hashes) :
    /\ hashes[i].result = ClaimedHash(lines, hashes[i].readable)
    /\ \E pl \in PlotsOf(hashes[i].by) : pl.hash = hashes[i].result
    /\ exc \in {"none", "RuntimeError"}

C7_Witness ==
  /\ Len(hashes) = 2
  /\ hashes[1].readable /\ Cardinality(Qualifying(lines)) = 2
  /\ Strip(lines[1]) # Strip(lines[2])
  /\ hashes[1].result = SubSeq(Strip(lines[2]), 6, Len(Strip(lines[2])))
  /\ ~hashes[2].readable /\ hashes[2].result = HashExtractionFailed
  /\ PlotsOf("acoustic") # {}

\* <name>: the base name without its trailing ".seq"
ClaimedName(path) ==
  LET b == Basename(path) IN SubSeq(b, 1, Len(b) - Len(DotSeq))

\* C8: for every input path whose base name is <name>.seq the PNS plot is
\* pns_check_<name>.png and the acoustic plot acoustic_resonances_<name>.png,
\* <name> being the base name with only its trailing .seq removed.
C8_OutputNames ==
  EndsWith(Basename(seq_file), DotSeq) =>
    \A pl \in plots :
      pl.file = (IF pl.kind = "pns" THEN PnsPrefix ELSE AcousticPrefix)
                  \o ClaimedName(seq_file) \o DotPng

\* C9: started with a number of arguments other than one or two, the script
\* prints the usage line and exits with status 1 without constructing or
\* reading the sequence, running a check or writing a file; with one or two
\* arguments it never takes the usage exit.
C9_BadUsageExit ==
  entry = "cli" =>
    IF Len(argv) - 1 \in {1, 2}
    THEN ~Printed("usage") /\ exc # "SystemExit"
    ELSE /\ stdout = <<"usage">>
         /\ exc = "SystemExit"
         /\ seq = "none"
         /\ plots = {} /\ hashes = <<>> /\ spectrum = <<>> /\ pns_ok = "none"
         /\ \A i \in 1..Len(steps) : steps[i] \in {"parse", "exit"}
         /\ pc \in {"exit", "done"}
         /\ pc = "done" => exit_status = "1"

C9_Witness ==
  /\ entry = "cli" /\ Len(argv) = 4 /\ pc = "done" /\ exit_status = "1"
  /\ stdout = <<"usage">>

\* C10: with the calibration file absent check_PNS only prints its warning:
\* it evaluates no PNS model, does not read the sequence file for a hash,
\* writes no PNS plot and raises nothing, and the acoustic check is next.
C10_PnsSkippedWithoutFile ==
  (~gradient_file.exists /\ Ran("pns")) =>
    /\ pns_ok = "none"
    /\ HashCallsBy("pns") = {}
    /\ PlotsOf("pns") = {}
    /\ exc # "RuntimeError"
    /\ stdout[1] = "pns_skipped_warning"
    /\ ~Printed("gradient_file_found") /\ ~Printed("pns_plot_saved")
    /\ ~Printed("pns_passed") /\ ~Printed("pns_failed")
    /\ pc = "acoustic" \/ Ran("acoustic")

C10_Witness ==
  /\ ~gradient_file.exists /\ pc = "done" /\ exit_status = "0"
  /\ pns_ok = "none" /\ Ran("pns") /\ Ran("acoustic")

====
